---- MODULE Spec2Model ----
(***************************************************************************)
(* Model of scraper.py: the change-detection and notification pipeline of  *)
(* run(), the seen-state store (load_state, merge_seen_urls, save_state)   *)
(* and the notifier.  A URL is a sequence of characters so that str.strip  *)
(* is computed, not assumed.                                               *)
(***************************************************************************)
EXTENDS Integers, Sequences, FiniteSets, TLC

(***************************************************************************)
(* Bounds of the model.                                                    *)
(***************************************************************************)
MaxItems == 3          \* longest candidate list a fetch returns
MaxInitialSend == 2    \* largest INITIAL_SEND_COUNT tried
MaxCap == 3            \* largest MAX_SEEN_URLS tried
MaxEnabled == 2        \* ENABLED_SOURCES names at most this many sources
MaxFetches == 3        \* page fetches in one behaviour
MaxMergeLen == 2       \* longest list given to merge_seen_urls on its own

(***************************************************************************)
(* Strings.                                                                *)
(***************************************************************************)
Space == " "

A == <<"a">>
B == <<"b">>
C == <<"c">>

\* The absolute URLs the extractors can return: urljoin of a stripped,
\* non-empty href, so never blank and never padded.
ItemUrls == {A, B, C}

\* Strings as they can stand in a hand-written list: padded, blank, empty.
RawUrls == {<<>>, <<Space>>, A, B, <<Space, "a">>, <<"a", Space>>}

RECURSIVE lstrip(_)
lstrip(s) == IF s # <<>> /\ Head(s) = Space THEN lstrip(Tail(s)) ELSE s

RECURSIVE rstrip(_)
rstrip(s) ==
    IF s # <<>> /\ s[Len(s)] = Space THEN rstrip(SubSeq(s, 1, Len(s) - 1)) ELSE s

strip(s) == rstrip(lstrip(s))

Range(s) == {s[i] : i \in 1..Len(s)}

\* Python slices xs[:n] and xs[n:] for n >= 0.
Take(xs, n) == SubSeq(xs, 1, IF n < Len(xs) THEN n ELSE Len(xs))
Drop(xs, n) == SubSeq(xs, n + 1, Len(xs))

Min(a, b) == IF a < b THEN a ELSE b

(***************************************************************************)
(* merge_seen_urls: the loop over new_urls + existing, with its break      *)
(* after the append.                                                       *)
(***************************************************************************)
\* Faulty variant of the loop: the membership test left out.
RECURSIVE merge_loop_keeps_duplicates(_, _, _)
merge_loop_keeps_duplicates(rest, merged, max_items) ==
    IF rest = <<>> THEN merged
    ELSE LET clean_url == strip(Head(rest)) IN
         IF clean_url = <<>>
         THEN merge_loop_keeps_duplicates(Tail(rest), merged, max_items)
         ELSE LET appended == Append(merged, clean_url) IN
              IF Len(appended) >= max_items THEN appended
              ELSE merge_loop_keeps_duplicates(Tail(rest), appended, max_items)

RECURSIVE merge_loop(_, _, _)
merge_loop(rest, merged, max_items) ==
    IF rest = <<>> THEN merged
    ELSE LET clean_url == strip(Head(rest)) IN
         IF clean_url = <<>> \/ clean_url \in Range(merged)
         THEN merge_loop(Tail(rest), merged, max_items)
         ELSE LET appended == Append(merged, clean_url) IN
              IF Len(appended) >= max_items THEN appended
              ELSE merge_loop(Tail(rest), appended, max_items)

\* Faulty variants: the old URLs first; no cap.
merge_existing_first(existing, new_urls, max_items) ==
    merge_loop(existing \o new_urls, <<>>, max_items)
merge_without_cap(existing, new_urls, max_items) ==
    merge_loop(new_urls \o existing, <<>>, Len(new_urls) + Len(existing) + 1)
merge_seen_urls(existing, new_urls, max_items) ==
    merge_loop(new_urls \o existing, <<>>, max_items)

(***************************************************************************)
(* The catalog and the configuration.                                      *)
(***************************************************************************)
SOURCES == <<"cucuta", "mintic_convocatorias", "mintic_noticias">>
SOURCES_BY_KEY == Range(SOURCES)
LegacyKey == "cucuta"

\* Tuples of distinct catalog keys, as parse_enabled_sources returns them;
\* the keys are taken among the first MaxEnabled of the catalog.
EnabledChoices ==
    LET n == Min(MaxEnabled, Len(SOURCES)) IN
    {e \in UNION {[1..k -> Range(Take(SOURCES, n))] : k \in 1..n} :
        \A i, k \in 1..Len(e) : i # k => e[i] # e[k]}

\* parse_int_env only returns values >= 1.
Configs ==
    [initial_send_count : 1..MaxInitialSend,
     max_seen_urls : 1..MaxCap,
     dry_run : BOOLEAN,
     enabled_sources : EnabledChoices]

(***************************************************************************)
(* Dictionaries keyed by source key.                                       *)
(***************************************************************************)
EmptyDict == [k \in {} |-> <<>>]
Get(d, k, default) == IF k \in DOMAIN d THEN d[k] ELSE default
Put(d, k, v) == [q \in DOMAIN d \cup {k} |-> IF q = k THEN v ELSE d[q]]

(***************************************************************************)
(* The state file.  A JSON list element is a string or something else.     *)
(***************************************************************************)
JStr(u) == [t |-> "str", v |-> u]
JNum == [t |-> "num", v |-> <<>>]

AbsentFile ==
    [kind |-> "absent", has_sources |-> FALSE, sources |-> EmptyDict,
     has_legacy |-> FALSE, legacy |-> <<>>]
MalformedFile == [AbsentFile EXCEPT !.kind = "malformed"]
\* Bytes that are not UTF-8 text.
UndecodableFile == [AbsentFile EXCEPT !.kind = "undecodable"]
LegacyFile(raw) ==
    [AbsentFile EXCEPT !.kind = "json", !.has_legacy = TRUE, !.legacy = raw]
ModernFile(srcs) ==
    [AbsentFile EXCEPT !.kind = "json", !.has_sources = TRUE, !.sources = srcs]

\* [str(url).strip() for url in raw if isinstance(url, str) and str(url).strip()]
RECURSIVE clean_list(_)
clean_list(raw) ==
    IF raw = <<>> THEN <<>>
    ELSE IF Head(raw).t = "str" /\ strip(Head(raw).v) # <<>>
         THEN <<strip(Head(raw).v)>> \o clean_list(Tail(raw))
         ELSE clean_list(Tail(raw))

\* Lines 283-287: read_text raises UnicodeDecodeError on bytes that are not
\* UTF-8; it is a ValueError, neither a JSONDecodeError nor an OSError, so
\* the except clause lets it through.
load_raises(f) == f.kind = "undecodable"

\* Faulty variant: the flat seen_urls field of the older format ignored.
load_state_without_legacy(f) ==
    IF f.kind # "json" \/ ~f.has_sources THEN EmptyDict
    ELSE [k \in DOMAIN f.sources |-> clean_list(f.sources[k])]

load_state(f) ==
    IF f.kind # "json" THEN EmptyDict
    ELSE LET state_by_source ==
                 IF f.has_sources
                 THEN [k \in DOMAIN f.sources |-> clean_list(f.sources[k])]
                 ELSE EmptyDict
         IN IF f.has_legacy /\ LegacyKey \notin DOMAIN state_by_source
            THEN Put(state_by_source, LegacyKey, clean_list(f.legacy))
            ELSE state_by_source

\* The payload save_state writes: every key of the mapping, nested format.
RECURSIVE json_list(_)
json_list(urls) ==
    IF urls = <<>> THEN <<>> ELSE <<JStr(Head(urls))>> \o json_list(Tail(urls))

\* Faulty variant: the last source of the catalogue is not written.
payload_without_last(seen_by_source) ==
    ModernFile([k \in DOMAIN seen_by_source \ {SOURCES[Len(SOURCES)]} |->
                   json_list(seen_by_source[k])])

payload(seen_by_source) ==
    ModernFile([k \in DOMAIN seen_by_source |-> json_list(seen_by_source[k])])

\* Files found on disk before the first run.
InitialFiles ==
    {AbsentFile, UndecodableFile,
     LegacyFile(<<JStr(<<Space, "a">>), JNum, JStr(<<Space>>), JStr(A)>>),
     ModernFile([k \in {"mintic_noticias"} |-> <<JStr(B), JStr(A)>>])}

(***************************************************************************)
(* Messages.                                                               *)
(***************************************************************************)
NewsItem(u, s) == [url |-> u, source_key |-> s]

\* Faulty variant: every message carries the initial-scan header.
format_initial_scan_message(item, initial_scan) ==
    [header |-> "escaneo inicial",
     source_key |-> item.source_key, url |-> item.url]

format_news_message(item, initial_scan) ==
    [header |-> IF initial_scan THEN "escaneo inicial" ELSE "nueva noticia",
     source_key |-> item.source_key, url |-> item.url]

\* Candidate lists a fetch can return: no URL twice (the extractors'
\* seen_urls), in any page order.
Pages ==
    {p \in UNION {[1..k -> ItemUrls] : k \in 0..MaxItems} :
        \A i, k \in 1..Len(p) : i # k => p[i] # p[k]}

(***************************************************************************)
(* State.                                                                  *)
(***************************************************************************)
VARIABLES
    env,                 \* the environment load_config reads
    state_file,          \* the file at config.state_file
    pc,                  \* "idle" | "source" | "notify"
    previous_by_source,  \* run(): previous_by_source
    updated_by_source,   \* run(): updated_by_source
    failures,            \* run(): failures
    source_idx,          \* position of the for loop over config.enabled_sources
    news_items,          \* run(): news_items
    first_run,           \* run(): first_run
    to_notify,           \* run(): to_notify
    skip_as_seen,        \* run(): skip_as_seen
    sent_urls,           \* run(): sent_urls
    item_idx,            \* position of the for loop over to_notify
    exit_code,           \* what the last finished run returned
    runs,                \* finished runs
    fetched,             \* history: how the last fetch ended
    attempts,            \* history: the notifier's calls for the current source
    boot,                \* history: pages of this run's clean bootstraps
    prev,                \* history: boot, failed deliveries, save of the run before
    recorded,            \* history: URLs ever saved in a source's seen-list
    saved_ok,            \* history: the last finished run saved its state
    all_saved,           \* history: every finished run saved its state
    handled,             \* history: the sources this run is through with, in order
    save_attempts,       \* history: calls of save_state in this run
    load_failed,         \* history: load_state raised in the last run
    m_in, m_out, m_pc,   \* merge_seen_urls on its own: arguments, result
    s_in,                \* the store on its own: the mapping or legacy list given
    s_file,              \* the store on its own: the file
    s_loaded,            \* the store on its own: what the last load_state returned
    s_first,             \* the store on its own: what the first load_state returned
    s_pc                 \* "off" | "save" | "load" | "resave" | "reload" | "done"

run_vars ==
    <<env, state_file, pc, previous_by_source, updated_by_source, failures,
      source_idx, news_items, first_run, to_notify, skip_as_seen, sent_urls,
      item_idx, exit_code, runs, fetched, attempts, boot, prev, recorded,
      saved_ok, all_saved, handled, save_attempts,
      load_failed>>
merge_vars == <<m_in, m_out, m_pc>>
store_vars == <<s_in, s_file, s_loaded, s_first, s_pc>>
pure_vars == <<merge_vars, store_vars>>
vars == <<run_vars, pure_vars>>

\* load_config: the same environment gives the same Config on every run.
config == env

NoRun ==
    [boot |-> EmptyDict, failed |-> [k \in SOURCES_BY_KEY |-> {}],
     saved_ok |-> FALSE]

NoMerge == [existing |-> <<>>, new_urls |-> <<>>, max_items |-> 1]

NoStoreInput == [kind |-> "none", map |-> EmptyDict, raw |-> <<>>]
NoStore ==
    /\ s_in = NoStoreInput
    /\ s_file = AbsentFile
    /\ s_loaded = EmptyDict
    /\ s_first = EmptyDict
    /\ s_pc = "off"

RunStart(e, f) ==
    /\ env = e
    /\ state_file = f
    /\ pc = "idle"
    /\ previous_by_source = EmptyDict
    /\ updated_by_source = EmptyDict
    /\ failures = <<>>
    /\ source_idx = 1
    /\ news_items = <<>>
    /\ first_run = FALSE
    /\ to_notify = <<>>
    /\ skip_as_seen = <<>>
    /\ sent_urls = <<>>
    /\ item_idx = 1
    /\ exit_code = 0
    /\ runs = 0
    /\ fetched = "none"
    /\ attempts = <<>>
    /\ boot = EmptyDict
    /\ prev = NoRun
    /\ recorded = [k \in SOURCES_BY_KEY |-> {}]
    /\ saved_ok = FALSE
    /\ all_saved = TRUE
    /\ handled = <<>>
    /\ save_attempts = 0
    /\ load_failed = FALSE

Init ==
    /\ \E e \in Configs, f \in InitialFiles : RunStart(e, f)
    /\ m_in = NoMerge /\ m_out = <<>> /\ m_pc = "off"
    /\ NoStore

\* The source the loop is at, and the one it handled last.
source_key == config.enabled_sources[source_idx]
handled_key ==
    IF pc = "notify" THEN config.enabled_sources[source_idx]
    ELSE IF source_idx > 1 THEN config.enabled_sources[source_idx - 1]
    ELSE ""
previously_seen == Get(previous_by_source, source_key, <<>>)

(***************************************************************************)
(* run(), lines 383-386: load_config, load_state, the copy, no failures.   *)
(* The locals of the run before are gone; prev keeps how it ended.         *)
(***************************************************************************)
StartRun ==
    /\ pc = "idle"
    /\ ~load_raises(state_file)
    /\ (runs + 1) * Len(config.enabled_sources) <= MaxFetches
    /\ previous_by_source' = load_state(state_file)
    /\ updated_by_source' = load_state(state_file)
    /\ failures' = <<>>
    /\ source_idx' = 1
    /\ news_items' = <<>>
    /\ first_run' = FALSE
    /\ to_notify' = <<>>
    /\ skip_as_seen' = <<>>
    /\ sent_urls' = <<>>
    /\ item_idx' = 1
    /\ fetched' = "none"
    /\ attempts' = <<>>
    /\ boot' = EmptyDict
    /\ prev' = [boot |-> boot,
                failed |-> [k \in SOURCES_BY_KEY |->
                               {f.context : f \in
                                   {g \in Range(failures) :
                                       g.kind = "send" /\ g.source_key = k}}],
                saved_ok |-> saved_ok]
    /\ pc' = "source"
    /\ handled' = <<>>
    /\ save_attempts' = 0
    /\ load_failed' = FALSE
    /\ UNCHANGED <<env, state_file, exit_code, runs, recorded, saved_ok,
                   all_saved,
                   pure_vars>>

(***************************************************************************)
(* Lines 383-384 and 452-456: load_state raises; the exception leaves      *)
(* run() before any source is looked at, and the exit status is 1.         *)
(***************************************************************************)
LoadCrash ==
    /\ pc = "idle"
    /\ (runs + 1) * Len(config.enabled_sources) <= MaxFetches
    /\ load_raises(state_file)
    /\ previous_by_source' = EmptyDict
    /\ updated_by_source' = EmptyDict
    /\ failures' = <<>>
    /\ source_idx' = 1
    /\ news_items' = <<>>
    /\ first_run' = FALSE
    /\ to_notify' = <<>>
    /\ skip_as_seen' = <<>>
    /\ sent_urls' = <<>>
    /\ item_idx' = 1
    /\ fetched' = "none"
    /\ attempts' = <<>>
    /\ boot' = EmptyDict
    /\ prev' = [NoRun EXCEPT !.boot = boot]
    /\ handled' = <<>>
    /\ save_attempts' = 0
    /\ load_failed' = TRUE
    /\ exit_code' = 1
    /\ saved_ok' = FALSE
    /\ all_saved' = FALSE
    /\ runs' = runs + 1
    /\ UNCHANGED <<env, state_file, pc, recorded, pure_vars>>

in_loop == pc = "source" /\ source_idx <= Len(config.enabled_sources)

RECURSIVE items_of(_, _)
items_of(urls, s) ==
    IF urls = <<>> THEN <<>>
    ELSE <<NewsItem(Head(urls), s)>> \o items_of(Tail(urls), s)

RECURSIVE urls_of(_)
urls_of(items) ==
    IF items = <<>> THEN <<>> ELSE <<Head(items).url>> \o urls_of(Tail(items))

RECURSIVE not_seen(_, _)
not_seen(items, seen_set) ==
    IF items = <<>> THEN <<>>
    ELSE IF Head(items).url \notin seen_set
         THEN <<Head(items)>> \o not_seen(Tail(items), seen_set)
         ELSE not_seen(Tail(items), seen_set)

\* Lines 411-412 and 414: the queue and the bootstrap skip list, each after
\* its faulty variants.
bootstrap_queue_all(items, n) == items
bootstrap_queue(items, n) == Take(items, n)

bootstrap_skip_none(items, n) == <<>>
bootstrap_skip_late(items, n) == urls_of(Drop(items, n + 1))
bootstrap_skip(items, n) == urls_of(Drop(items, n))

steady_queue_all(items, seen_set) == items
steady_queue_first(items, seen_set) == Take(not_seen(items, seen_set), 1)
steady_queue(items, seen_set) == not_seen(items, seen_set)

\* Faulty variant: a failed fetch ends the loop over the sources.
FetchErrorSkipsRest ==
    /\ in_loop
    /\ failures' = Append(failures,
                      [kind |-> "fetch", source_key |-> source_key,
                       context |-> <<>>])
    /\ updated_by_source' = Put(updated_by_source, source_key, previously_seen)
    /\ fetched' = "error"
    /\ news_items' = <<>>
    /\ first_run' = FALSE
    /\ to_notify' = <<>>
    /\ skip_as_seen' = <<>>
    /\ sent_urls' = <<>>
    /\ item_idx' = 1
    /\ attempts' = <<>>
    /\ source_idx' = Len(config.enabled_sources) + 1
    /\ handled' = Append(handled, source_key)
    /\ UNCHANGED <<env, state_file, pc, previous_by_source, exit_code, runs,
                   boot, prev, recorded, saved_ok, all_saved,
                   save_attempts,
                   load_failed, pure_vars>>

(***************************************************************************)
(* Lines 392-398: the fetch raises.  The locals of the source before are   *)
(* dead here: they are cleared.                                            *)
(***************************************************************************)
FetchError ==
    /\ in_loop
    /\ failures' = Append(failures,
                      [kind |-> "fetch", source_key |-> source_key,
                       context |-> <<>>])
    /\ updated_by_source' = Put(updated_by_source, source_key, previously_seen)
    /\ fetched' = "error"
    /\ news_items' = <<>>
    /\ first_run' = FALSE
    /\ to_notify' = <<>>
    /\ skip_as_seen' = <<>>
    /\ sent_urls' = <<>>
    /\ item_idx' = 1
    /\ attempts' = <<>>
    /\ source_idx' = source_idx + 1
    /\ handled' = Append(handled, source_key)
    /\ UNCHANGED <<env, state_file, pc, previous_by_source, exit_code, runs,
                   boot, prev, recorded, saved_ok, all_saved,
                   save_attempts,
                   load_failed, pure_vars>>

\* Faulty variant: an empty page is recorded as a failure.
FetchEmptyAsFailure ==
    /\ in_loop
    /\ failures' = Append(failures,
                      [kind |-> "fetch", source_key |-> source_key,
                       context |-> <<>>])
    /\ updated_by_source' = Put(updated_by_source, source_key, previously_seen)
    /\ fetched' = "empty"
    /\ news_items' = <<>>
    /\ first_run' = FALSE
    /\ to_notify' = <<>>
    /\ skip_as_seen' = <<>>
    /\ sent_urls' = <<>>
    /\ item_idx' = 1
    /\ attempts' = <<>>
    /\ source_idx' = source_idx + 1
    /\ handled' = Append(handled, source_key)
    /\ UNCHANGED <<env, state_file, pc, previous_by_source,
                   exit_code, runs, boot, prev, recorded, saved_ok, all_saved,
                   save_attempts,
                   load_failed, pure_vars>>

(***************************************************************************)
(* Lines 400-403: the fetch returns no items.                              *)
(***************************************************************************)
FetchEmpty ==
    /\ in_loop
    /\ updated_by_source' = Put(updated_by_source, source_key, previously_seen)
    /\ fetched' = "empty"
    /\ news_items' = <<>>
    /\ first_run' = FALSE
    /\ to_notify' = <<>>
    /\ skip_as_seen' = <<>>
    /\ sent_urls' = <<>>
    /\ item_idx' = 1
    /\ attempts' = <<>>
    /\ source_idx' = source_idx + 1
    /\ handled' = Append(handled, source_key)
    /\ UNCHANGED <<env, state_file, pc, previous_by_source, failures,
                   exit_code, runs, boot, prev, recorded, saved_ok, all_saved,
                   save_attempts,
                   load_failed, pure_vars>>

(***************************************************************************)
(* Lines 405-418: the fetch returns items; the queue is decided.           *)
(***************************************************************************)
FetchItems ==
    /\ in_loop
    /\ \E p \in Pages \ {<<>>} :
          LET items == items_of(p, source_key)
              seen_set == Range(previously_seen)
          IN /\ news_items' = items
             /\ first_run' = (Len(previously_seen) = 0)
             /\ to_notify' =
                   IF Len(previously_seen) = 0
                   THEN bootstrap_queue(items, config.initial_send_count)
                   ELSE steady_queue(items, seen_set)
             /\ skip_as_seen' =
                   IF Len(previously_seen) = 0
                   THEN bootstrap_skip(items, config.initial_send_count)
                   ELSE <<>>
    /\ fetched' = "items"
    /\ sent_urls' = <<>>
    /\ item_idx' = 1
    /\ attempts' = <<>>
    /\ pc' = "notify"
    /\ UNCHANGED <<env, state_file, previous_by_source, updated_by_source,
                   failures, source_idx, exit_code, runs, boot, prev, recorded,
                   saved_ok, all_saved,
                   handled, save_attempts,
                   load_failed, pure_vars>>

in_send == pc = "notify" /\ item_idx <= Len(to_notify)

\* Faulty variant: every pass of the loop takes the head of the queue.
first_item == to_notify[1]

item == to_notify[item_idx]

(***************************************************************************)
(* Lines 419-424: send_telegram_message returns.                           *)
(***************************************************************************)
SendOk ==
    /\ in_send
    /\ attempts' = Append(attempts,
                      [message |-> format_news_message(item, first_run),
                       ok |-> TRUE])
    /\ sent_urls' = Append(sent_urls, item.url)
    /\ item_idx' = item_idx + 1
    /\ UNCHANGED <<env, state_file, pc, previous_by_source, updated_by_source,
                   failures, source_idx, news_items, first_run, to_notify,
                   skip_as_seen, exit_code, runs, fetched, boot, prev, recorded,
                   saved_ok, all_saved,
                   handled, save_attempts,
                   load_failed, pure_vars>>

(***************************************************************************)
(* Lines 425-427: send_telegram_message raises (never under DRY_RUN).      *)
(***************************************************************************)
SendFail ==
    /\ in_send
    /\ ~config.dry_run
    /\ attempts' = Append(attempts,
                      [message |-> format_news_message(item, first_run),
                       ok |-> FALSE])
    /\ failures' = Append(failures,
                      [kind |-> "send", source_key |-> source_key,
                       context |-> item.url])
    /\ item_idx' = item_idx + 1
    /\ UNCHANGED <<env, state_file, pc, previous_by_source, updated_by_source,
                   source_idx, news_items, first_run, to_notify, skip_as_seen,
                   sent_urls, exit_code, runs, fetched, boot, prev, recorded,
                   saved_ok, all_saved,
                   handled, save_attempts,
                   load_failed, pure_vars>>

(***************************************************************************)
(* Lines 432-437: the end-of-source merge.                                 *)
(***************************************************************************)
MergeSource ==
    /\ pc = "notify"
    /\ item_idx > Len(to_notify)
    /\ updated_by_source' =
          Put(updated_by_source, source_key,
              merge_seen_urls(previously_seen, sent_urls \o skip_as_seen,
                              config.max_seen_urls))
    /\ boot' = IF first_run /\ \A i \in 1..Len(attempts) : attempts[i].ok
               THEN Put(boot, source_key, urls_of(news_items))
               ELSE boot
    /\ source_idx' = source_idx + 1
    /\ pc' = "source"
    /\ handled' = Append(handled, source_key)
    /\ UNCHANGED <<env, state_file, previous_by_source, failures, news_items,
                   first_run, to_notify, skip_as_seen, sent_urls, item_idx,
                   exit_code, runs, fetched, attempts, prev, recorded,
                   saved_ok, all_saved,
                   save_attempts,
                   load_failed, pure_vars>>

\* Faulty variant: the loop is left before the last source.
loop_left_early == pc = "source" /\ source_idx >= Len(config.enabled_sources)

loop_done == pc = "source" /\ source_idx > Len(config.enabled_sources)

\* Faulty variant: only the delivery failures count.
exit_status_of_deliveries(fs) ==
    IF \E i \in 1..Len(fs) : fs[i].kind = "send" THEN 1 ELSE 0

\* Lines 442-448: what run() returns once the state is saved.
exit_status(fs) == IF fs # <<>> THEN 1 ELSE 0

(***************************************************************************)
(* Lines 439-448: save_state writes the file; run() returns.               *)
(***************************************************************************)
SaveOk ==
    /\ loop_done
    /\ state_file' = payload(updated_by_source)
    /\ exit_code' = exit_status(failures)
    /\ recorded' = [k \in SOURCES_BY_KEY |->
                       recorded[k] \cup Range(Get(updated_by_source, k, <<>>))]
    /\ saved_ok' = TRUE
    /\ runs' = runs + 1
    /\ pc' = "idle"
    /\ save_attempts' = save_attempts + 1
    /\ UNCHANGED <<env, previous_by_source, updated_by_source, failures,
                   source_idx, news_items, first_run, to_notify, skip_as_seen,
                   sent_urls, item_idx, fetched, attempts, boot, prev, all_saved,
                   handled,
                   load_failed, pure_vars>>

(***************************************************************************)
(* Lines 439 and 452-456: save_state raises (mkdir fails and the file is   *)
(* as it was, or the write fails on the truncated file); exit status 1.    *)
(***************************************************************************)
SaveFail ==
    /\ loop_done
    /\ state_file' \in {state_file, MalformedFile}
    /\ exit_code' = 1
    /\ saved_ok' = FALSE
    /\ all_saved' = FALSE
    /\ runs' = runs + 1
    /\ pc' = "idle"
    /\ save_attempts' = save_attempts + 1
    /\ UNCHANGED <<env, previous_by_source, updated_by_source, failures,
                   source_idx, news_items, first_run, to_notify, skip_as_seen,
                   sent_urls, item_idx, fetched, attempts, boot, prev, recorded,
                   handled,
                   load_failed, pure_vars>>

Next ==
    \/ StartRun
    \/ LoadCrash
    \/ FetchError
    \/ FetchEmpty
    \/ FetchItems
    \/ SendOk
    \/ SendFail
    \/ MergeSource
    \/ SaveOk
    \/ SaveFail

Spec == Init /\ [][Next]_vars

(***************************************************************************)
(* What the claims speak of.                                               *)
(***************************************************************************)
\* The source handled last went through the whole of lines 405-437.
merged == fetched = "items" /\ pc # "notify"

\* The candidates' URLs, in page order.
candidates == urls_of(news_items)

\* The seen-list the run loaded for the source handled last.
prior_seen == Get(previous_by_source, handled_key, <<>>)

\* A source's seen-list after its merge; once the run has saved, the one
\* the next run would load.
seen_after(k) ==
    IF pc = "idle" /\ saved_ok THEN Get(load_state(state_file), k, <<>>)
    ELSE Get(updated_by_source, k, <<>>)

RECURSIVE notified_of(_)
notified_of(as) ==
    IF as = <<>> THEN <<>>
    ELSE <<Head(as).message.url>> \o notified_of(Tail(as))

RECURSIVE delivered_of(_)
delivered_of(as) ==
    IF as = <<>> THEN <<>>
    ELSE IF Head(as).ok THEN <<Head(as).message.url>> \o delivered_of(Tail(as))
         ELSE delivered_of(Tail(as))

\* URLs the notifier was asked to send for the source handled last, in
\* order; those it delivered; those it failed on.
notified == notified_of(attempts)
delivered == delivered_of(attempts)
failed_urls == {attempts[i].message.url : i \in {k \in 1..Len(attempts) : ~attempts[k].ok}}

all_delivered == \A i \in 1..Len(attempts) : attempts[i].ok

three_of_two == Len(candidates) = 3 /\ config.initial_send_count = 2

\* C2 as stated: the bootstrap run delivers candidates 1 and 2 only and
\* leaves the URL of candidate 3 out of the seen-list; the run after it, on
\* the same page, delivers candidate 3 and neither 1 nor 2.
C2_TwoRuns ==
    (merged /\ three_of_two /\ all_delivered) =>
        /\ Len(prior_seen) = 0 =>
              /\ notified = Take(candidates, 2)
              /\ candidates[3] \notin Range(seen_after(handled_key))
        /\ (prev.saved_ok /\ Get(prev.boot, handled_key, <<>>) = candidates) =>
              notified = <<candidates[3]>>

\* C2 amended: with MAX_SEEN_URLS >= 3 the bootstrap run delivers candidates
\* 1 and 2 only and records all three URLs; the run after it, on the same
\* page, delivers nothing.
C2_TwoRunsAmended ==
    (merged /\ three_of_two /\ all_delivered /\ config.max_seen_urls >= 3) =>
        /\ Len(prior_seen) = 0 =>
              /\ notified = Take(candidates, 2)
              /\ seen_after(handled_key) = candidates
        /\ (prev.saved_ok /\ Get(prev.boot, handled_key, <<>>) = candidates) =>
              notified = <<>>

C2_Witness ==
    /\ merged /\ three_of_two /\ config.max_seen_urls >= 3
    /\ prev.saved_ok
    /\ Get(prev.boot, handled_key, <<>>) = candidates
    /\ notified = <<>>

\* C3: an item whose delivery failed in the run before and whose URL is
\* among the source's candidates now is queued again.
C3_FailedIsQueuedAgain ==
    fetched = "items" =>
        \A u \in prev.failed[handled_key] \cap Range(candidates) :
            u \in Range(urls_of(to_notify))

\* C4 as stated: a source whose loaded seen-list was empty ends the run
\* with exactly min(INITIAL_SEND_COUNT, number of candidates) URLs.
C4_BootstrapSeenCount ==
    ((merged \/ (fetched = "empty" /\ pc # "notify")) /\ Len(prior_seen) = 0) =>
        Len(seen_after(handled_key)) =
            Min(config.initial_send_count, Len(candidates))

\* C4 amended: such a source ends the run with exactly min(MAX_SEEN_URLS,
\* number of candidates - number of failed deliveries) URLs.
C4_BootstrapSeenCountAmended ==
    ((merged \/ (fetched = "empty" /\ pc # "notify")) /\ Len(prior_seen) = 0) =>
        Len(seen_after(handled_key)) =
            Min(config.max_seen_urls, Len(candidates) - Cardinality(failed_urls))

C4_Witness ==
    /\ merged /\ Len(prior_seen) = 0
    /\ Len(candidates) > config.initial_send_count
    /\ failed_urls # {}
    /\ Len(seen_after(handled_key)) = 2

\* C5: a source whose loaded seen-list was empty has at most
\* INITIAL_SEND_COUNT items sent to the notifier, and they are the first
\* candidates in page order.
C5_BootstrapSendsFirst ==
    (fetched = "items" /\ Len(prior_seen) = 0) =>
        /\ Len(attempts) <= config.initial_send_count
        /\ notified = Take(candidates, Len(attempts))

C5_Witness ==
    /\ merged /\ Len(prior_seen) = 0
    /\ Len(candidates) > config.initial_send_count
    /\ Len(attempts) = config.initial_send_count
    /\ config.initial_send_count = 2

\* C6: a source whose loaded seen-list was not empty has exactly the
\* candidates whose URL is not in that list sent to the notifier, however
\* many they are.
C6_SteadySendsUnseen ==
    ((merged \/ (fetched = "empty" /\ pc # "notify")) /\ Len(prior_seen) > 0) =>
        Range(notified) = {u \in Range(candidates) : u \notin Range(prior_seen)}

C6_Witness ==
    /\ merged /\ Len(prior_seen) > 0
    /\ Len(notified) > config.initial_send_count
    /\ Range(candidates) \cap Range(prior_seen) # {}

\* C7 as stated: the URL of a queued item is out of the source's seen-list
\* after the run if its delivery failed, and in it if its delivery succeeded.
C7_SeenIffDelivered ==
    merged =>
        \A i \in 1..Len(attempts) :
            attempts[i].ok <=>
                attempts[i].message.url \in Range(seen_after(handled_key))

\* C7 amended: out of the seen-list if the delivery failed; if it succeeded,
\* in the seen-list exactly when the item is among the first MAX_SEEN_URLS
\* delivered of that source in the run.
C7_SeenIffDeliveredWithinCap ==
    merged =>
        /\ \A u \in failed_urls : u \notin Range(seen_after(handled_key))
        /\ \A i \in 1..Len(delivered) :
              i <= config.max_seen_urls <=>
                  delivered[i] \in Range(seen_after(handled_key))

C7_Witness ==
    /\ merged /\ Len(prior_seen) > 0
    /\ failed_urls # {} /\ delivered # <<>>
    /\ delivered[1] \in Range(seen_after(handled_key))

\* C8 as stated: in a bootstrap every candidate after the first
\* INITIAL_SEND_COUNT is not sent and its URL is in the seen-list after the
\* run, whatever became of the deliveries.
C8_BootstrapRestSeen ==
    (merged /\ Len(prior_seen) = 0) =>
        \A k \in (config.initial_send_count + 1)..Len(candidates) :
            /\ candidates[k] \notin Range(notified)
            /\ candidates[k] \in Range(seen_after(handled_key))

\* C8 amended: such a candidate is not sent, and its URL is in the seen-list
\* after the run exactly when the delivered URLs and the skipped ones up to
\* it number at most MAX_SEEN_URLS.
C8_BootstrapRestSeenWithinCap ==
    (merged /\ Len(prior_seen) = 0) =>
        \A k \in (config.initial_send_count + 1)..Len(candidates) :
            /\ candidates[k] \notin Range(notified)
            /\ (Len(delivered) + (k - config.initial_send_count)
                    <= config.max_seen_urls)
                 <=> candidates[k] \in Range(seen_after(handled_key))

C8_Witness ==
    /\ merged /\ Len(prior_seen) = 0
    /\ Len(candidates) = 3 /\ config.initial_send_count = 1
    /\ failed_urls # {}
    /\ candidates[3] \in Range(seen_after(handled_key))

(***************************************************************************)
(* merge_seen_urls on its own: any two short lists of strings, padded and  *)
(* blank ones among them, any cap from 0 up, and the store's scenario of a *)
(* full list of five with two new URLs.                                    *)
(***************************************************************************)
Lists(S, n) == UNION {[1..k -> S] : k \in 0..n}

FullExisting == <<<<"c">>, <<"d">>, <<"e">>, <<"f">>, <<"g">>>>
TwoNew == <<A, B>>
FullScenario ==
    [existing |-> FullExisting, new_urls |-> TwoNew,
     max_items |-> Len(FullExisting)]

MergeInputs ==
    [existing : Lists(RawUrls, MaxMergeLen),
     new_urls : Lists(RawUrls, MaxMergeLen),
     max_items : 0..MaxCap]
      \cup {FullScenario}

MergeInit ==
    /\ RunStart(CHOOSE e \in Configs : TRUE, AbsentFile)
    /\ m_in \in MergeInputs
    /\ m_out = <<>>
    /\ m_pc = "call"
    /\ NoStore

ApplyMerge ==
    /\ m_pc = "call"
    /\ m_out' = merge_seen_urls(m_in.existing, m_in.new_urls, m_in.max_items)
    /\ m_pc' = "done"
    /\ UNCHANGED <<m_in, run_vars, store_vars>>

MergeNext == ApplyMerge

SpecMerge == MergeInit /\ [][MergeNext]_vars

(***************************************************************************)
(* The reference merge: filters composed, then the slice.                  *)
(***************************************************************************)
RECURSIVE StripAll(_)
StripAll(xs) ==
    IF xs = <<>> THEN <<>> ELSE <<strip(Head(xs))>> \o StripAll(Tail(xs))

IsBlank(u) == \A i \in 1..Len(u) : u[i] = Space

RECURSIVE DropBlank(_)
DropBlank(xs) ==
    IF xs = <<>> THEN <<>>
    ELSE IF IsBlank(Head(xs)) THEN DropBlank(Tail(xs))
         ELSE <<Head(xs)>> \o DropBlank(Tail(xs))

\* xs without every element that stands earlier in xs.
FirstOccurrences(xs) ==
    LET keep == {i \in 1..Len(xs) : \A k \in 1..(i - 1) : xs[k] # xs[i]}
        RECURSIVE pick(_)
        pick(i) ==
            IF i > Len(xs) THEN <<>>
            ELSE IF i \in keep THEN <<xs[i]>> \o pick(i + 1) ELSE pick(i + 1)
    IN pick(1)

NoDuplicates(xs) == \A i, k \in 1..Len(xs) : i # k => xs[i] # xs[k]

\* C9 as stated: for every cap >= 1 the result is new_urls followed by
\* existing, without the blank URLs, each URL at its first occurrence only,
\* cut to the first cap entries; and the full list of five with two new URLs
\* gives the two new ones followed by the first three of the five.
C9_MergeIsReference ==
    (m_pc = "done" /\ m_in.max_items >= 1) =>
        /\ m_out = Take(FirstOccurrences(DropBlank(m_in.new_urls \o m_in.existing)),
                        m_in.max_items)
        /\ m_in = FullScenario => m_out = TwoNew \o Take(FullExisting, 3)

\* C9 amended: the same reference, computed on the URLs with their
\* surrounding whitespace stripped (the result holds the stripped URLs).
C9_MergeIsReferenceOfStripped ==
    (m_pc = "done" /\ m_in.max_items >= 1) =>
        /\ m_out = Take(FirstOccurrences(DropBlank(
                            StripAll(m_in.new_urls \o m_in.existing))),
                        m_in.max_items)
        /\ m_in = FullScenario => m_out = TwoNew \o Take(FullExisting, 3)

C9_Witness ==
    /\ m_pc = "done"
    /\ m_in = FullScenario
    /\ m_out = <<A, B, <<"c">>, <<"d">>, <<"e">>>>

\* C10: whatever the lists and the cap, the result of merge_seen_urls is no
\* longer than the cap and holds no URL twice.
C10_MergeBounded ==
    m_pc = "done" => Len(m_out) <= m_in.max_items /\ NoDuplicates(m_out)

(***************************************************************************)
(* save_state and load_state on their own: a mapping is saved, loaded,     *)
(* saved again and loaded again; or a flat file of the older format is     *)
(* loaded, saved and loaded again.  The mappings are those run() can hand  *)
(* to save_state (lists that load_state or merge_seen_urls returned, so    *)
(* stripped and not blank); the flat file holds any JSON list.             *)
(***************************************************************************)
StoreKeys == {LegacyKey, "mintic_noticias"}

StoreMaps ==
    UNION {[K -> Lists(ItemUrls, MaxMergeLen)] : K \in SUBSET StoreKeys}

JsonElements == {JStr(u) : u \in RawUrls} \cup {JNum}

StoreInputs ==
    {[kind |-> "map", map |-> m, raw |-> <<>>] : m \in StoreMaps}
      \cup {[kind |-> "legacy", map |-> EmptyDict, raw |-> r] :
                r \in Lists(JsonElements, MaxMergeLen)}

StoreInit ==
    /\ RunStart(CHOOSE e \in Configs : TRUE, AbsentFile)
    /\ m_in = NoMerge /\ m_out = <<>> /\ m_pc = "off"
    /\ s_in \in StoreInputs
    /\ s_file = IF s_in.kind = "legacy" THEN LegacyFile(s_in.raw) ELSE AbsentFile
    /\ s_loaded = EmptyDict
    /\ s_first = EmptyDict
    /\ s_pc = IF s_in.kind = "legacy" THEN "load" ELSE "save"

StoreSave ==
    /\ s_pc \in {"save", "resave"}
    /\ s_file' = payload(IF s_pc = "save" THEN s_in.map ELSE s_loaded)
    /\ s_pc' = IF s_pc = "save" THEN "load" ELSE "reload"
    /\ UNCHANGED <<s_in, s_loaded, s_first, run_vars, merge_vars>>

StoreLoad ==
    /\ s_pc \in {"load", "reload"}
    /\ s_loaded' = load_state(s_file)
    /\ s_first' = IF s_pc = "load" THEN load_state(s_file) ELSE s_first
    /\ s_pc' = IF s_pc = "load" THEN "resave" ELSE "done"
    /\ UNCHANGED <<s_in, s_file, run_vars, merge_vars>>

StoreNext == StoreSave \/ StoreLoad

SpecStore == StoreInit /\ [][StoreNext]_vars

first_loaded == s_pc \in {"resave", "reload", "done"}

\* The strings of a JSON list, in order.
RECURSIVE Strings(_)
Strings(raw) ==
    IF raw = <<>> THEN <<>>
    ELSE IF Head(raw).t = "str" THEN <<Head(raw).v>> \o Strings(Tail(raw))
         ELSE Strings(Tail(raw))

\* C11 as stated: a saved mapping loads as itself, same keys and same lists;
\* a flat file loads as exactly its list under the legacy key; and what was
\* loaded is loaded again after it has been saved.
C11_RoundTrip ==
    /\ (first_loaded /\ s_in.kind = "map") => s_first = s_in.map
    /\ (first_loaded /\ s_in.kind = "legacy") =>
           /\ DOMAIN s_first = {LegacyKey}
           /\ json_list(s_first[LegacyKey]) = s_in.raw
    /\ s_pc = "done" => s_loaded = s_first

\* C11 amended: a mapping run() saves loads as itself; a flat file loads,
\* under the legacy key, as the strings of its list with the surrounding
\* whitespace stripped and the blank ones dropped; and what was loaded is
\* loaded again unchanged after it has been saved.
C11_RoundTripOfCleaned ==
    /\ (first_loaded /\ s_in.kind = "map") => s_first = s_in.map
    /\ (first_loaded /\ s_in.kind = "legacy") =>
           /\ DOMAIN s_first = {LegacyKey}
           /\ s_first[LegacyKey] = DropBlank(StripAll(Strings(s_in.raw)))
    /\ s_pc = "done" => s_loaded = s_first

C11_Witness ==
    /\ s_pc = "done"
    /\ s_in.kind = "legacy"
    /\ s_in.raw = <<JStr(<<Space, "a">>), JNum>>
    /\ s_loaded = [k \in {LegacyKey} |-> <<A>>]

(***************************************************************************)
(* The end of a run.                                                       *)
(***************************************************************************)
run_ended == pc = "idle" /\ runs > 0

\* C12 as stated: a run exits with status 0 exactly when it accumulated no
\* failure record.
C12_ExitZeroIffNoFailure ==
    run_ended => (exit_code = 0 <=> failures = <<>>)

\* C12 amended: a run exits with status 0 exactly when it accumulated no
\* failure record and saved its state (neither load_state nor save_state
\* raised).
C12_ExitZeroIffNoFailureAndSaved ==
    run_ended => (exit_code = 0 <=> (failures = <<>> /\ saved_ok))

C12_Witness ==
    /\ run_ended
    /\ saved_ok
    /\ exit_code = 1
    /\ Len(failures) = 1
    /\ failures[1].kind = "fetch"
    /\ Len(config.enabled_sources) = 2
    /\ attempts # <<>>

\* C13: of a run in which load_state returned: while the run is at its sources save_state has not been called; when
\* the run has ended save_state has been called exactly once, and every
\* enabled source is through with its fetch and its deliveries, in the order
\* of the configuration, whatever failed.
C13_SaveOnceAfterAllSources ==
    /\ pc \in {"source", "notify"} => save_attempts = 0
    /\ (run_ended /\ ~load_failed) =>
           /\ save_attempts = 1
           /\ handled = config.enabled_sources

C13_Witness ==
    /\ run_ended
    /\ save_attempts = 1
    /\ Len(handled) = 2
    /\ \E i, k \in 1..Len(failures) :
           failures[i].kind = "fetch" /\ failures[k].kind = "send"

(***************************************************************************)
(* A state file load_state cannot read.  While a run is at its sources the *)
(* file is the one the run started from.                                   *)
(***************************************************************************)
unreadable == state_file.kind \in {"malformed", "undecodable"}

\* C14: on a state file that is malformed or unreadable load_state does not
\* raise and returns the empty mapping, and every source of the run that has
\* items is handled as a bootstrap: first_run, initial-scan header.
C14_UnreadableStateIsEmptyState ==
    unreadable =>
        /\ ~load_failed
        /\ pc \in {"source", "notify"} =>
               /\ previous_by_source = EmptyDict
               /\ fetched = "items" =>
                      /\ first_run
                      /\ \A i \in 1..Len(attempts) :
                             attempts[i].message.header = "escaneo inicial"

(***************************************************************************)
(* The failure records of the run.                                         *)
(***************************************************************************)
records_of(k) == {i \in 1..Len(failures) : failures[i].source_key = k}
fetch_failed(k) ==
    \E i \in records_of(k) : failures[i].kind = "fetch"

\* C15: a source whose fetch failed has exactly one failure record and no
\* delivery failure, and its seen-list is the loaded one at the end of the
\* run; right after the failure no notifier call has been made for it; and
\* the sources the loop is through with are all the enabled ones before its
\* position, so at the end of the run all of them, whatever failed.
C15_FetchFailureIsolated ==
    /\ \A k \in Range(config.enabled_sources) :
           fetch_failed(k) =>
               /\ Cardinality(records_of(k)) = 1
               /\ seen_after(k) = Get(previous_by_source, k, <<>>)
    /\ fetched = "error" => attempts = <<>> /\ fetch_failed(handled_key)
    /\ pc = "source" => handled = Take(config.enabled_sources, source_idx - 1)
    /\ (run_ended /\ ~load_failed) => handled = config.enabled_sources

C15_Witness ==
    /\ run_ended
    /\ saved_ok
    /\ Len(config.enabled_sources) = 2
    /\ fetch_failed(config.enabled_sources[1])
    /\ seen_after(config.enabled_sources[1]) = <<A, A>>
    /\ fetched = "items"
    /\ attempts # <<>>
    /\ seen_after(config.enabled_sources[2]) # <<>>

\* The source the loop is at, if any.
current_key ==
    IF source_idx <= Len(config.enabled_sources)
    THEN config.enabled_sources[source_idx] ELSE ""

\* C16: the file a run writes holds, for every loaded key that is not
\* enabled, the list that was loaded; and no step of a run changes, in
\* updated_by_source, the entry of a key other than the source the loop is
\* at.
C16_OtherSourcesUntouched ==
    /\ [](run_ended /\ saved_ok =>
            \A k \in DOMAIN previous_by_source \ Range(config.enabled_sources) :
                /\ k \in DOMAIN state_file.sources
                /\ state_file.sources[k] = json_list(previous_by_source[k]))
    /\ [][pc # "idle" =>
            \A k \in (DOMAIN updated_by_source \cup DOMAIN updated_by_source')
                        \ {current_key} :
                /\ k \in DOMAIN updated_by_source
                /\ k \in DOMAIN updated_by_source'
                /\ updated_by_source'[k] = updated_by_source[k]]_vars

C16_Witness ==
    /\ run_ended
    /\ saved_ok
    /\ Len(config.enabled_sources) = 2
    /\ "mintic_noticias" \in DOMAIN previous_by_source
    /\ load_state(state_file)["mintic_noticias"] = <<B, A>>
    /\ Len(load_state(state_file)["cucuta"]) >= 2
    /\ attempts # <<>>

\* C17: after a fetch that returned no items, the seen-list of that source
\* is the loaded one, no notifier call has been made for it, the run holds no
\* failure record of it, and the loop has moved on past it.
C17_EmptyPageChangesNothing ==
    fetched = "empty" =>
        /\ seen_after(handled_key) = Get(previous_by_source, handled_key, <<>>)
        /\ attempts = <<>>
        /\ records_of(handled_key) = {}
        /\ pc \in {"source", "idle"}
        /\ handled = Take(config.enabled_sources, source_idx - 1)
        /\ handled[Len(handled)] = handled_key

C17_Witness ==
    /\ fetched = "empty"
    /\ in_loop
    /\ source_idx = 2
    /\ Get(updated_by_source, handled_key, <<>>) = <<A, A>>
    /\ failures = <<>>

\* C18: every seen-list in the file a run has written holds no URL twice and
\* is no longer than max_seen_urls.
C18_WrittenListsBounded ==
    (run_ended /\ saved_ok) =>
        \A k \in DOMAIN state_file.sources :
            LET written == load_state(state_file)[k] IN
            /\ NoDuplicates(written)
            /\ Len(written) <= config.max_seen_urls

\* Where a URL stands on the page of the source handled last.
page_index(u) == CHOOSE i \in 1..Len(candidates) : candidates[i] = u

\* C19: while a source's queue is being sent, the notifier has been called
\* once for each queued item before the loop's position, in the order of the
\* queue, whatever the outcome of each call; after the merge it has been
\* called exactly once for every queued item; and the order of the calls is
\* the order of the page.
C19_EachQueuedItemSentOnce ==
    /\ pc = "notify" =>
           /\ Len(attempts) = item_idx - 1
           /\ notified = urls_of(Take(to_notify, item_idx - 1))
    /\ merged =>
           /\ notified = urls_of(to_notify)
           /\ NoDuplicates(notified)
    /\ fetched = "items" =>
           \A i, k \in 1..Len(notified) :
               i < k => page_index(notified[i]) < page_index(notified[k])

C19_Witness ==
    /\ merged
    /\ Len(to_notify) = 2
    /\ Len(attempts) = 2
    /\ ~attempts[1].ok
    /\ attempts[2].ok
    /\ notified = <<B, A>>

\* C20: while every finished run has saved its state, a source for which an
\* earlier run saved a seen-list that was not empty has a seen-list that is
\* not empty: in the file between runs, and as loaded and as updated during
\* a run; and when the run has items of it, the source is not handled as a
\* bootstrap: first_run is false, the queue is every unseen item of the
\* page, and every message carries the header of a new item.
C20_NeverBootstrapAgain ==
    all_saved =>
        \A k \in SOURCES_BY_KEY :
            recorded[k] # {} =>
                /\ pc = "idle" => Get(load_state(state_file), k, <<>>) # <<>>
                /\ pc # "idle" =>
                       /\ Get(previous_by_source, k, <<>>) # <<>>
                       /\ Get(updated_by_source, k, <<>>) # <<>>
                /\ (pc # "idle" /\ fetched = "items" /\ handled_key = k) =>
                       /\ ~first_run
                       /\ to_notify = not_seen(news_items, Range(prior_seen))
                       /\ \A i \in 1..Len(attempts) :
                              attempts[i].message.header = "nueva noticia"

C20_Witness ==
    /\ all_saved
    /\ pc = "source"
    /\ fetched = "items"
    /\ recorded[handled_key] # {}
    /\ config.initial_send_count = 1
    /\ config.max_seen_urls = 1
    /\ Len(attempts) = 2
    /\ Len(Get(updated_by_source, handled_key, <<>>)) = 1

====
